---- MODULE Spec2Model ----
(***************************************************************************)
(* Emoji-Database: the emoji data generator.                               *)
(*                                                                         *)
(* The repository holds two variants of one script:                        *)
(*   src/unnamed/part_000                  the auto-updating script        *)
(*   src/script/generate-emoji-counts.js   the earlier, basic script       *)
(* Both parse the Unicode emoji list into a dictionary with generated      *)
(* skin-tone variants and group it by category; part_000 also reconciles   *)
(* the counts table row by row and checks for updates before it fetches.   *)
(*                                                                         *)
(* Text is modelled as a sequence of one-character strings, so that        *)
(* trim, split, parseInt and includes are computed, not assumed.  A        *)
(* JavaScript string built by String.fromCodePoint is modelled as its      *)
(* sequence of code points.                                                *)
(***************************************************************************)
EXTENDS Integers, Sequences, FiniteSets, TLC

(***************************************************************************)
(* Bounds of the model.                                                    *)
(***************************************************************************)
\* Rows of the counts table after its header row.
MaxCountRows == 4
\* Rows of the emoji table.
MaxDataRows == 3

(***************************************************************************)
(* Text.                                                                   *)
(***************************************************************************)
Range(s) == {s[i] : i \in DOMAIN s}

IsSpace(c) == c \in {" ", "\t", "\n"}

RECURSIVE TrimLeft(_)
TrimLeft(s) ==
    IF s # <<>> /\ IsSpace(Head(s)) THEN TrimLeft(Tail(s)) ELSE s

RECURSIVE TrimRight(_)
TrimRight(s) ==
    IF s # <<>> /\ IsSpace(s[Len(s)]) THEN TrimRight(SubSeq(s, 1, Len(s) - 1)) ELSE s

\* String.prototype.trim
Trim(s) == TrimRight(TrimLeft(s))

\* String.prototype.split(' '): always at least one (possibly empty) token.
RECURSIVE SplitFrom(_, _, _)
SplitFrom(s, cur, acc) ==
    IF s = <<>> THEN Append(acc, cur)
    ELSE IF Head(s) = " " THEN SplitFrom(Tail(s), <<>>, Append(acc, cur))
    ELSE SplitFrom(Tail(s), Append(cur, Head(s)), acc)

Split(s) == SplitFrom(s, <<>>, <<>>)

LowerOf ==
    [c \in {"A", "B", "C", "D", "E", "F", "G", "H", "I", "J", "K", "L", "M",
            "N", "O", "P", "Q", "R", "S", "T", "U", "V", "W", "X", "Y", "Z"} |->
        CASE c = "A" -> "a" [] c = "B" -> "b" [] c = "C" -> "c" [] c = "D" -> "d"
          [] c = "E" -> "e" [] c = "F" -> "f" [] c = "G" -> "g" [] c = "H" -> "h"
          [] c = "I" -> "i" [] c = "J" -> "j" [] c = "K" -> "k" [] c = "L" -> "l"
          [] c = "M" -> "m" [] c = "N" -> "n" [] c = "O" -> "o" [] c = "P" -> "p"
          [] c = "Q" -> "q" [] c = "R" -> "r" [] c = "S" -> "s" [] c = "T" -> "t"
          [] c = "U" -> "u" [] c = "V" -> "v" [] c = "W" -> "w" [] c = "X" -> "x"
          [] c = "Y" -> "y" [] c = "Z" -> "z"]

\* String.prototype.toLowerCase
toLowerCase(s) == [i \in DOMAIN s |-> IF s[i] \in DOMAIN LowerOf THEN LowerOf[s[i]] ELSE s[i]]

\* String.prototype.includes
includes(s, sub) ==
    \E i \in 0..(Len(s) - Len(sub)) : SubSeq(s, i + 1, i + Len(sub)) = sub

(***************************************************************************)
(* JavaScript values: a number, NaN, or undefined.                         *)
(***************************************************************************)
Num(n) == [t |-> "num", v |-> n]
NaN == [t |-> "nan", v |-> 0]
Undefined == [t |-> "undef", v |-> 0]

isNaN(x) == x.t # "num"

\* a - b: undefined converts to NaN, NaN is absorbing.
JsSub(a, b) == IF a.t = "num" /\ b.t = "num" THEN Num(a.v - b.v) ELSE NaN

DigitVal(c) ==
    CASE c = "0" -> 0 [] c = "1" -> 1 [] c = "2" -> 2 [] c = "3" -> 3
      [] c = "4" -> 4 [] c = "5" -> 5 [] c = "6" -> 6 [] c = "7" -> 7
      [] c = "8" -> 8 [] c = "9" -> 9
      [] c \in {"a", "A"} -> 10 [] c \in {"b", "B"} -> 11
      [] c \in {"c", "C"} -> 12 [] c \in {"d", "D"} -> 13
      [] c \in {"e", "E"} -> 14 [] c \in {"f", "F"} -> 15
      [] OTHER -> 99

IsDigit(c, radix) == DigitVal(c) < radix

\* The longest prefix of s made of digits of the radix.
RECURSIVE DigitPrefix(_, _)
DigitPrefix(s, radix) ==
    IF s # <<>> /\ IsDigit(Head(s), radix)
    THEN <<Head(s)>> \o DigitPrefix(Tail(s), radix)
    ELSE <<>>

RECURSIVE DigitsValue(_, _, _)
DigitsValue(s, radix, acc) ==
    IF s = <<>> THEN acc
    ELSE DigitsValue(Tail(s), radix, acc * radix + DigitVal(Head(s)))

\* parseInt(text, radix): leading white space and a sign are skipped, with
\* radix 16 a 0x prefix too; the longest digit prefix is the value, whatever
\* follows it is ignored; no digit at all gives NaN.
parseInt(text, radix) ==
    LET t0 == TrimLeft(text)
        neg == t0 # <<>> /\ Head(t0) = "-"
        t1 == IF t0 # <<>> /\ Head(t0) \in {"-", "+"} THEN Tail(t0) ELSE t0
        t2 == IF radix = 16 /\ Len(t1) >= 2 /\ t1[1] = "0" /\ t1[2] \in {"x", "X"}
              THEN SubSeq(t1, 3, Len(t1)) ELSE t1
        ds == DigitPrefix(t2, radix)
    IN  IF ds = <<>> THEN NaN
        ELSE Num((IF neg THEN -1 ELSE 1) * DigitsValue(ds, radix, 0))

(***************************************************************************)
(* A JavaScript object used as a dictionary: its own keys in insertion     *)
(* order, and the value of each.  Assigning to an existing key keeps the   *)
(* key's place.  (No key of the model is an integer-like string, which     *)
(* JavaScript would enumerate first.)                                      *)
(***************************************************************************)
EmptyObj == [keys |-> <<>>, val |-> <<>>]

HasKey(o, k) == k \in DOMAIN o.val

ObjPut(o, k, v) ==
    [keys |-> IF HasKey(o, k) THEN o.keys ELSE Append(o.keys, k),
     val  |-> (k :> v) @@ o.val]

\* The assignments o[e[1]] = e[2] for the entries e, in order; the keys of
\* the entries are distinct.
ObjPutAll(o, entries) ==
    LET fresh == SelectSeq(entries, LAMBDA e : ~HasKey(o, e[1]))
        given == [k \in {entries[i][1] : i \in DOMAIN entries} |->
                     (CHOOSE e \in Range(entries) : e[1] = k)[2]]
    IN  [keys |-> o.keys \o [i \in DOMAIN fresh |-> fresh[i][1]],
         val  |-> given @@ o.val]

(***************************************************************************)
(* parseEmojiCounts (part_000): the counts table, row by row.              *)
(* A row is the sequence of the texts of its td cells.                     *)
(***************************************************************************)
\* $(cells[i]).text(): the text of the cell, the empty string when the row
\* has no such cell.
CellText(row, i) == IF i <= Len(row) THEN row[i] ELSE <<>>

InitialStats ==
    [total_without_skin_tone_variations |-> Num(0),
     component |-> Num(0),
     dual_skin_tone_support |-> Num(0),
     groups |-> EmptyObj,
     total_with_variations |-> Undefined,
     skin_tone_variations |-> Undefined]

\* The body of the loop over the rows, for one row.
CountsRow(stats, row) ==
    LET category == Trim(CellText(row, 1))
        count == parseInt(Trim(CellText(row, 2)), 10)
    IN  IF category = <<"C", "o", "m", "p", "o", "n", "e", "n", "t">> THEN [stats EXCEPT !.component = count]
        ELSE IF category = <<"T", "o", "t", "a", "l">> THEN [stats EXCEPT !.total_with_variations = count]
        ELSE IF category = <<"W", "i", "t", "h", " ", "s", "k", "i", "n", " ", "t", "o", "n", "e", " ", "v", "a", "r", "i", "a", "t", "i", "o", "n", "s">>
             THEN [stats EXCEPT !.skin_tone_variations = count]
        ELSE IF category # <<"G", "r", "o", "u", "p">> /\ ~isNaN(count)
             THEN [stats EXCEPT !.groups = ObjPut(@, category, count)]
        ELSE stats

\* for (let i = 1; i < rows.length; i++): the first row is never read.
RECURSIVE CountsLoop(_, _, _)
CountsLoop(stats, rows, i) ==
    IF i > Len(rows) THEN stats
    ELSE CountsLoop(CountsRow(stats, rows[i]), rows, i + 1)

\* Reconcile with the component count left in the total.
ReconcileKeepsComponent(stats) ==
    [stats EXCEPT !.total_without_skin_tone_variations =
        JsSub(stats.total_with_variations, stats.skin_tone_variations)]

\* stats.total_without_skin_tone_variations =
\*     stats.total_with_variations - stats.skin_tone_variations - stats.component
Reconcile(stats) ==
    [stats EXCEPT !.total_without_skin_tone_variations =
        JsSub(JsSub(stats.total_with_variations, stats.skin_tone_variations),
              stats.component)]

\* parseEmojiCounts never throws: it returns the statistics whatever it read.
parseEmojiCounts(rows) == Reconcile(CountsLoop(InitialStats, rows, 2))

(***************************************************************************)
(* parseEmojiCounts (generate-emoji-counts.js): the first row of the page  *)
(* names the columns and the last row gives their counts.                  *)
(* A row is the sequence of the texts of its child nodes.                  *)
(***************************************************************************)
\* a + b: NaN is absorbing.
JsAdd(a, b) == IF a.t = "num" /\ b.t = "num" THEN Num(a.v + b.v) ELSE NaN

\* Number(text): white space around the text is dropped; the empty text is
\* 0; a sign and decimal digits, all of the text, are the value; any other
\* text is NaN.  (The texts of the model hold no fraction, exponent or
\* radix prefix.)
Number(text) ==
    LET t0 == Trim(text)
        neg == t0 # <<>> /\ Head(t0) = "-"
        t1 == IF t0 # <<>> /\ Head(t0) \in {"-", "+"} THEN Tail(t0) ELSE t0
    IN  IF t0 = <<>> THEN Num(0)
        ELSE IF t1 # <<>> /\ DigitPrefix(t1, 10) = t1
             THEN Num((IF neg THEN -1 ELSE 1) * DigitsValue(t1, 10, 0))
        ELSE NaN

\* const groups = [...]
BasicGroups ==
    {<<"S", "m", "i", "l", "e", "y", "s", " ", "&", " ", "E", "m", "o", "t", "i", "o", "n">>, <<"P", "e", "o", "p", "l", "e", " ", "&", " ", "B", "o", "d", "y">>, <<"A", "n", "i", "m", "a", "l", "s", " ", "&", " ", "N", "a", "t", "u", "r", "e">>, <<"F", "o", "o", "d", " ", "&", " ", "D", "r", "i", "n", "k">>,
     <<"T", "r", "a", "v", "e", "l", " ", "&", " ", "P", "l", "a", "c", "e", "s">>, <<"A", "c", "t", "i", "v", "i", "t", "i", "e", "s">>, <<"O", "b", "j", "e", "c", "t", "s">>, <<"S", "y", "m", "b", "o", "l", "s">>, <<"F", "l", "a", "g", "s">>}

\* const skinToneMarker: the one character U+1F3FF.
skinToneMarker == <<"U+1F3FF">>

\* for (let i = 0; i < theadCells.length; i++), from the i-th cell on.
RECURSIVE BasicColumnsLoop(_, _, _, _)
BasicColumnsLoop(stats, theadCells, totalCells, i) ==
    IF i > Len(theadCells) THEN stats
    ELSE LET column == theadCells[i]
             count == Number(totalCells[i])
             next == IF column \in BasicGroups
                     THEN [stats EXCEPT !.groups = ObjPut(@, column, count)]
                     ELSE IF column = <<"C", "o", "m", "p", "o", "n", "e", "n", "t">>
                          THEN [stats EXCEPT !.component = count]
                     ELSE stats
         IN  BasicColumnsLoop(next, theadCells, totalCells, i + 1)

\* counts.reduce((a, b) => a + b, 0) over the rows from the i-th on whose
\* first child node has the marker in its text.
RECURSIVE BasicSkinToneVariations(_, _)
BasicSkinToneVariations(rows, i) ==
    IF i > Len(rows) THEN Num(0)
    ELSE LET rest == BasicSkinToneVariations(rows, i + 1)
         IN  IF includes(rows[i][1], skinToneMarker)
             THEN JsAdd(Number(rows[i][Len(rows[i])]), rest)
             ELSE rest

\* The reads of a property of undefined, each a TypeError: allRows[0] of a
\* page without rows, the last cell of a last row without child nodes,
\* totalCells[i] when the last row is shorter than the first, and
\* row.childNodes[0] of a row without child nodes.
BasicCountsThrows(rows) ==
    \/ Len(rows) = 0
    \/ Len(rows[Len(rows)]) = 0
    \/ Len(rows[1]) > Len(rows[Len(rows)])
    \/ \E i \in DOMAIN rows : Len(rows[i]) = 0

\* parseEmojiCounts of generate-emoji-counts.js: it returns the statistics
\* (ok) or throws.
parseEmojiCountsBasic(rows) ==
    IF BasicCountsThrows(rows) THEN [ok |-> FALSE, stats |-> InitialStats]
    ELSE LET theadCells == rows[1]
             totalCells == rows[Len(rows)]
             read == [InitialStats EXCEPT !.total_without_skin_tone_variations =
                         Number(totalCells[Len(totalCells)])]
             columns == BasicColumnsLoop(read, theadCells, totalCells, 1)
             skinToneVariations == BasicSkinToneVariations(rows, 1)
         IN  [ok |-> TRUE,
              stats |-> [columns EXCEPT
                  !.total_without_skin_tone_variations =
                      JsSub(JsSub(columns.total_without_skin_tone_variations,
                                  skinToneVariations),
                            columns.component),
                  !.dual_skin_tone_support = Num(13)]]
(***************************************************************************)
(* parseEmojiData: the emoji table, row by row.                            *)
(* A row names the classes of the cells it has and gives their texts.      *)
(* script is "auto" for part_000 and "basic" for generate-emoji-counts.js: *)
(* the two differ in the keyword lists and in recording code_points.       *)
(***************************************************************************)
Scripts == {"auto", "basic"}

SKIN_TONE_MODIFIERS == << <<127995>>, <<127996>>, <<127997>>, <<127998>>, <<127999>> >>

getSkinToneName(modifier) ==
    CASE modifier = <<127995>> -> <<"l", "i", "g", "h", "t", " ", "s", "k", "i", "n", " ", "t", "o", "n", "e">>
      [] modifier = <<127996>> -> <<"m", "e", "d", "i", "u", "m", "-", "l", "i", "g", "h", "t", " ", "s", "k", "i", "n", " ", "t", "o", "n", "e">>
      [] modifier = <<127997>> -> <<"m", "e", "d", "i", "u", "m", " ", "s", "k", "i", "n", " ", "t", "o", "n", "e">>
      [] modifier = <<127998>> -> <<"m", "e", "d", "i", "u", "m", "-", "d", "a", "r", "k", " ", "s", "k", "i", "n", " ", "t", "o", "n", "e">>
      [] modifier = <<127999>> -> <<"d", "a", "r", "k", " ", "s", "k", "i", "n", " ", "t", "o", "n", "e">>
      [] OTHER -> <<"u", "n", "k", "n", "o", "w", "n", " ", "s", "k", "i", "n", " ", "t", "o", "n", "e">>

SkinToneKeywords(script) ==
    IF script = "auto"
    THEN {<<"h", "a", "n", "d">>, <<"p", "e", "r", "s", "o", "n">>, <<"p", "e", "o", "p", "l", "e">>, <<"f", "a", "c", "e">>, <<"g", "e", "s", "t", "u", "r", "e">>, <<"w", "a", "l", "k", "i", "n", "g">>,
          <<"s", "t", "a", "n", "d", "i", "n", "g">>, <<"k", "n", "e", "e", "l", "i", "n", "g">>, <<"r", "u", "n", "n", "i", "n", "g">>, <<"s", "i", "t", "t", "i", "n", "g">>}
    ELSE {<<"h", "a", "n", "d">>, <<"p", "e", "r", "s", "o", "n">>, <<"p", "e", "o", "p", "l", "e">>}

DualSkinToneKeywords(script) ==
    IF script = "auto"
    THEN {<<"h", "a", "n", "d", "s", "h", "a", "k", "e">>, <<"p", "e", "o", "p", "l", "e", " ", "h", "o", "l", "d", "i", "n", "g", " ", "h", "a", "n", "d", "s">>, <<"c", "o", "u", "p", "l", "e">>, <<"f", "a", "m", "i", "l", "y">>, <<"k", "i", "s", "s">>,
          <<"c", "o", "u", "p", "l", "e", " ", "w", "i", "t", "h", " ", "h", "e", "a", "r", "t">>}
    ELSE {<<"h", "a", "n", "d", "s", "h", "a", "k", "e">>, <<"p", "e", "o", "p", "l", "e", " ", "h", "o", "l", "d", "i", "n", "g", " ", "h", "a", "n", "d", "s">>}

hasSkinToneSupport(script, name) ==
    \E kw \in SkinToneKeywords(script) : includes(toLowerCase(name), kw)

hasDualSkinToneSupport(script, name) ==
    \E kw \in DualSkinToneKeywords(script) : includes(toLowerCase(name), kw)

\* String.fromCodePoint throws a RangeError unless every argument is an
\* integer in 0..0x10FFFF; NaN is not.
MaxCodePoint == 1114111
ValidCodePoint(x) == x.t = "num" /\ x.v >= 0 /\ x.v <= MaxCodePoint

\* A boolean property that a record may lack: "true", "false", "undefined".
JsBool(b) == IF b THEN "true" ELSE "false"
\* The value of a string or array property that the record lacks.
Absent == <<>>

BaseRecord(script, name, group, codePoints) ==
    [name |-> name,
     group |-> group,
     skin_tone_support |-> JsBool(hasSkinToneSupport(script, name)),
     dual_skin_tone_support |-> JsBool(hasDualSkinToneSupport(script, name)),
     is_variant |-> "undefined",
     base_emoji |-> Absent,
     code_points |-> IF script = "auto" THEN codePoints ELSE Absent]

SingleVariantRecord(script, emoji, name, group, codePoints, modifier) ==
    [name |-> name \o <<" ", "(">> \o getSkinToneName(modifier) \o <<")">>,
     group |-> group,
     skin_tone_support |-> "true",
     dual_skin_tone_support |-> "undefined",
     is_variant |-> "true",
     base_emoji |-> emoji,
     code_points |-> IF script = "auto" THEN Append(codePoints, modifier[1]) ELSE Absent]

DualVariantRecord(script, emoji, name, group, codePoints, modifier1, modifier2) ==
    [name |-> name \o <<" ", "(">> \o getSkinToneName(modifier1) \o <<" ", "a", "n", "d", " ">>
                   \o getSkinToneName(modifier2) \o <<")">>,
     group |-> group,
     skin_tone_support |-> "true",
     dual_skin_tone_support |-> "true",
     is_variant |-> "true",
     base_emoji |-> emoji,
     code_points |-> IF script = "auto"
                     THEN codePoints \o <<modifier1[1], modifier2[1]>> ELSE Absent]

\* SKIN_TONE_MODIFIERS.forEach(modifier => emojiData[emoji + modifier] = ...)
AddSingleVariants(script, emojiData, emoji, name, group, codePoints) ==
    ObjPutAll(emojiData,
        [i \in DOMAIN SKIN_TONE_MODIFIERS |->
            LET modifier == SKIN_TONE_MODIFIERS[i]
            IN  <<emoji \o modifier,
                  SingleVariantRecord(script, emoji, name, group, codePoints, modifier)>>])

\* The nested forEach: modifier1 in the outer loop, modifier2 in the inner.
ModifierPairs ==
    LET n == Len(SKIN_TONE_MODIFIERS)
    IN  [p \in 1..(n * n) |->
            <<SKIN_TONE_MODIFIERS[((p - 1) \div n) + 1],
              SKIN_TONE_MODIFIERS[((p - 1) % n) + 1]>>]

AddDualVariants(script, emojiData, emoji, name, group, codePoints) ==
    ObjPutAll(emojiData,
        [p \in DOMAIN ModifierPairs |->
            LET modifier1 == ModifierPairs[p][1]
                modifier2 == ModifierPairs[p][2]
            IN  <<emoji \o modifier1 \o modifier2,
                  DualVariantRecord(script, emoji, name, group, codePoints,
                                    modifier1, modifier2)>>])

\* The dual variants are generated inside the branch of the single ones.
AddVariants(script, emojiData, emoji, name, group, codePoints) ==
    IF hasSkinToneSupport(script, name)
    THEN LET singles == AddSingleVariants(script, emojiData, emoji, name, group,
                                          codePoints)
         IN  IF hasDualSkinToneSupport(script, name)
             THEN AddDualVariants(script, singles, emoji, name, group, codePoints)
             ELSE singles
    ELSE emojiData

RowCells == {"code", "name", "group"}

\* if (!codeCell.length || !nameCell.length || !groupCell.length) return;
RowIsSkipped(row) == row.cells # RowCells

CodePointsOf(row) ==
    LET tokens == Split(Trim(row.code))
    IN  [i \in DOMAIN tokens |-> parseInt(tokens[i], 16)]

\* The row makes String.fromCodePoint throw.
RowThrows(row) ==
    ~RowIsSkipped(row) /\ \E x \in Range(CodePointsOf(row)) : ~ValidCodePoint(x)

\* The body of the loop over the rows, for a row that is neither skipped
\* nor thrown on.
ProcessRow(script, emojiData, row) ==
    LET parsed == CodePointsOf(row)
        codePoints == [i \in DOMAIN parsed |-> parsed[i].v]
        emoji == codePoints
        name == Trim(row.name)
        group == Trim(row.group)
        withBase == ObjPut(emojiData, emoji, BaseRecord(script, name, group, codePoints))
    IN  AddVariants(script, withBase, emoji, name, group, codePoints)

\* parseEmojiData: [ok, data]; ok is FALSE when a row threw, and then
\* nothing is returned.
RECURSIVE DataLoop(_, _, _, _)
DataLoop(script, emojiData, rows, i) ==
    IF i > Len(rows) THEN [ok |-> TRUE, data |-> emojiData]
    ELSE IF RowIsSkipped(rows[i]) THEN DataLoop(script, emojiData, rows, i + 1)
    ELSE IF RowThrows(rows[i]) THEN [ok |-> FALSE, data |-> EmptyObj]
    ELSE DataLoop(script, ProcessRow(script, emojiData, rows[i]), rows, i + 1)

parseEmojiData(script, rows) == DataLoop(script, EmptyObj, rows, 1)

(***************************************************************************)
(* generateGroupData.                                                      *)
(***************************************************************************)
\* groups = {} inherits the properties of Object.prototype: groups[name] is
\* truthy for these names although no group was created.
ObjectPrototypeNames ==
    {<<"c", "o", "n", "s", "t", "r", "u", "c", "t", "o", "r">>, <<"t", "o", "S", "t", "r", "i", "n", "g">>, <<"v", "a", "l", "u", "e", "O", "f">>, <<"h", "a", "s", "O", "w", "n", "P", "r", "o", "p", "e", "r", "t", "y">>, <<"_", "_", "p", "r", "o", "t", "o", "_", "_">>}

GroupEntry(emoji, data) ==
    [emoji |-> emoji,
     name |-> data.name,
     skin_tone_support |-> data.skin_tone_support,
     dual_skin_tone_support |-> data.dual_skin_tone_support]

\* IsListed without the test of is_variant.
IsListedAlways(data) == TRUE

\* if (!data.is_variant)
IsListed(data) == data.is_variant # "true"

\* One iteration of the loop over Object.entries(emojiData); groups is
\* [ok, obj], ok FALSE once groups[data.group].emojis.push threw.
GroupStep(groups, emoji, data) ==
    LET g == data.group
        inherited == ~HasKey(groups.obj, g) /\ g \in ObjectPrototypeNames
        created == IF ~HasKey(groups.obj, g) /\ ~inherited
                   THEN ObjPut(groups.obj, g, [name |-> g, emojis |-> <<>>])
                   ELSE groups.obj
    IN  IF ~IsListed(data) THEN [ok |-> TRUE, obj |-> created]
        ELSE IF inherited THEN [ok |-> FALSE, obj |-> groups.obj]
        ELSE [ok |-> TRUE,
              obj |-> ObjPut(created, g,
                         [created.val[g] EXCEPT !.emojis = Append(@, GroupEntry(emoji, data))])]

\* for (const [emoji, data] of Object.entries(emojiData)), until a throw.
RECURSIVE GroupLoop(_, _, _)
GroupLoop(groups, emojiData, i) ==
    IF i > Len(emojiData.keys) \/ ~groups.ok THEN groups
    ELSE GroupLoop(GroupStep(groups, emojiData.keys[i], emojiData.val[emojiData.keys[i]]),
                   emojiData, i + 1)

\* Object.values(groups): the groups in the order of their creation.
generateGroupData(emojiData) ==
    LET groups == GroupLoop([ok |-> TRUE, obj |-> EmptyObj], emojiData, 1)
    IN  [ok |-> groups.ok,
         list |-> IF groups.ok
                  THEN [i \in DOMAIN groups.obj.keys |-> groups.obj.val[groups.obj.keys[i]]]
                  ELSE <<>>]

(***************************************************************************)
(* Inputs of the model.                                                    *)
(***************************************************************************)
CountsRowOf(label, count) == <<label, count>>

\* The rows of the counts fixture of testWithMockData (part_000), in order.
MockCountsRows ==
    << CountsRowOf(<<"G", "r", "o", "u", "p">>, <<"C", "o", "u", "n", "t">>),
       CountsRowOf(<<"S", "m", "i", "l", "e", "y", "s", " ", "&", " ", "E", "m", "o", "t", "i", "o", "n">>, <<"1", "0", "0">>),
       CountsRowOf(<<"P", "e", "o", "p", "l", "e", " ", "&", " ", "B", "o", "d", "y">>, <<"2", "0", "0">>),
       CountsRowOf(<<"C", "o", "m", "p", "o", "n", "e", "n", "t">>, <<"1", "0">>),
       CountsRowOf(<<"T", "o", "t", "a", "l">>, <<"3", "1", "0">>),
       CountsRowOf(<<"W", "i", "t", "h", " ", "s", "k", "i", "n", " ", "t", "o", "n", "e", " ", "v", "a", "r", "i", "a", "t", "i", "o", "n", "s">>, <<"2", "5">>) >>

\* The rows of the counts fixture of testWithMockData
\* (generate-emoji-counts.js), in order.
MockCountsRowsBasic ==
    << <<<<"S", "m", "i", "l", "e", "y", "s", " ", "&", " ", "E", "m", "o", "t", "i", "o", "n">>, <<"1", "0", "0">>>>,
       <<<<"P", "e", "o", "p", "l", "e", " ", "&", " ", "B", "o", "d", "y">>, <<"2", "0", "0">>>>,
       <<<<"T", "o", "t", "a", "l", ":", " ", "3", "0", "0">>>>,
       <<<<"C", "o", "m", "p", "o", "n", "e", "n", "t", "s", ":", " ", "1", "0">>>>,
       <<<<"D", "u", "a", "l", " ", "s", "k", "i", "n", " ", "t", "o", "n", "e", " ", "s", "u", "p", "p", "o", "r", "t", ":", " ", "5">>>> >>

\* What the first row of a counts page may be: the header, or a data row.
CountsHeaderRows == {CountsRowOf(<<"G", "r", "o", "u", "p">>, <<"C", "o", "u", "n", "t">>), CountsRowOf(<<"T", "o", "t", "a", "l">>, <<"3", "1", "0">>)}

\* What a later row of a counts page may be: the rows of the fixture, a
\* second total, a padded label, a header label with a number, a row
\* with no count cell, and a count that is no number.
CountsRowSet ==
    {MockCountsRows[i] : i \in 2..Len(MockCountsRows)}
    \cup {CountsRowOf(<<"T", "o", "t", "a", "l">>, <<"2", "0">>),
          CountsRowOf(<<" ", "C", "o", "m", "p", "o", "n", "e", "n", "t", " ">>, <<" ", "7">>),
          CountsRowOf(<<"G", "r", "o", "u", "p">>, <<"5">>),
          <<<<"T", "o", "t", "a", "l">>>>,
          CountsRowOf(<<"F", "l", "a", "g", "s">>, <<"n", "/", "a">>)}

DataRowOf(code, name, group) ==
    [cells |-> RowCells, code |-> code, name |-> name, group |-> group]

\* The rows of the emoji fixture of testWithMockData (part_000), in order.
MockDataRows ==
    << DataRowOf(<<"1", "F", "6", "0", "0">>, <<"g", "r", "i", "n", "n", "i", "n", "g", " ", "f", "a", "c", "e">>, <<"S", "m", "i", "l", "e", "y", "s", " ", "&", " ", "E", "m", "o", "t", "i", "o", "n">>),
       DataRowOf(<<"1", "F", "9", "1", "D">>, <<"h", "a", "n", "d", "s", "h", "a", "k", "e">>, <<"P", "e", "o", "p", "l", "e", " ", "&", " ", "B", "o", "d", "y">>),
       DataRowOf(<<"1", "F", "4", "4", "B">>, <<"w", "a", "v", "i", "n", "g", " ", "h", "a", "n", "d">>, <<"P", "e", "o", "p", "l", "e", " ", "&", " ", "B", "o", "d", "y">>),
       DataRowOf(<<"1", "F", "4", "6", "B">>, <<"w", "o", "m", "a", "n", " ", "a", "n", "d", " ", "m", "a", "n", " ", "h", "o", "l", "d", "i", "n", "g", " ", "h", "a", "n", "d", "s">>, <<"P", "e", "o", "p", "l", "e", " ", "&", " ", "B", "o", "d", "y">>) >>

\* The rows of the emoji fixture of testWithMockData
\* (generate-emoji-counts.js), in order.
MockDataRowsBasic == SubSeq(MockDataRows, 1, 3)

\* What a row of an emoji page may be: the rows of the fixture; a row for
\* an emoji with a modifier; a name that only the dual keywords match; a
\* code seen before with another name and category; code texts that are
\* not hexadecimal; a row without its group cell; a category named like a
\* property of Object.prototype.
DataRowSet ==
    {MockDataRows[i] : i \in 1..Len(MockDataRows)}
    \cup {DataRowOf(<<"1", "F", "4", "4", "B", " ", "1", "F", "3", "F", "B">>, <<"w", "a", "v", "i", "n", "g", " ", "h", "a", "n", "d", ":", " ", "l", "i", "g", "h", "t", " ", "s", "k", "i", "n", " ", "t", "o", "n", "e">>, <<"P", "e", "o", "p", "l", "e", " ", "&", " ", "B", "o", "d", "y">>),
          DataRowOf(<<"1", "F", "4", "6", "A">>, <<"F", "a", "m", "i", "l", "y">>, <<"P", "e", "o", "p", "l", "e", " ", "&", " ", "B", "o", "d", "y">>),
          DataRowOf(<<" ", "1", "F", "4", "4", "B", " ">>, <<"s", "t", "a", "r">>, <<"S", "y", "m", "b", "o", "l", "s">>),
          DataRowOf(<<"1", "F", "6", "Z", "Z">>, <<"s", "t", "a", "r">>, <<"S", "y", "m", "b", "o", "l", "s">>),
          DataRowOf(<<"1", "F", "4", "4", "B", " ", " ", "1", "F", "3", "F", "B">>, <<"w", "a", "v", "i", "n", "g", " ", "h", "a", "n", "d">>, <<"P", "e", "o", "p", "l", "e", " ", "&", " ", "B", "o", "d", "y">>),
          [cells |-> {"code", "name"}, code |-> <<"1", "F", "4", "4", "B">>, name |-> <<"w", "a", "v", "i", "n", "g", " ", "h", "a", "n", "d">>,
           group |-> <<>>],
          DataRowOf(<<"2", "B", "5", "0">>, <<"s", "t", "a", "r">>, <<"c", "o", "n", "s", "t", "r", "u", "c", "t", "o", "r">>)}

(***************************************************************************)
(* State.                                                                  *)
(***************************************************************************)
VARIABLES
    pc,          \* where the run or the call stands
    script,      \* which of the two scripts runs
    countsHtml,  \* the rows of the counts page
    dataHtml,    \* the rows of the emoji page
    stats,       \* what parseEmojiCounts returned
    emojiData,   \* what parseEmojiData returned
    groupData,   \* what generateGroupData returned
    argvTest,    \* process.argv includes --test
    retryCount,  \* the retryCount of the running fetchWithRetry call
    attempts,    \* the calls of fetch() it has made, 0 when none is running
    now,         \* Date.now(), in days
    latest,      \* the version the emoji-versions page shows
    version,     \* what getLatestEmojiVersion returned to main
    statsFile,   \* test/stats.json: NoFile, Corrupt or its content
    fetched,     \* the pages this run has fetched, in order
    written,     \* the output files written by this run, in order
    files,       \* for each output file, the run that wrote it last, 0 if none
    exitCode,    \* the exit code of the process, Running until it ends
    run          \* the number of this run of the script

vars == <<pc, script, countsHtml, dataHtml, stats, emojiData, groupData,
          argvTest, retryCount, attempts, now, latest, version, statsFile, fetched, written, files, exitCode, run>>

\* The variables of a run of main, which the calls of one function leave alone.
runVars == <<argvTest, retryCount, attempts, now, latest, version, statsFile, fetched, written, files, exitCode, run>>

\* The files main writes, in the order of its writes.
OutputFiles ==
    << "test/stats.json", "data-by-emoji.json", "data-by-group.json",
       "data-ordered-emoji.json", "data-emoji-components.json" >>

Running == -1
NoVersion == ""
NoFile == [kind |-> "none", last_update |-> 0, emoji_version |-> NoVersion]
Corrupt == [kind |-> "corrupt", last_update |-> 0, emoji_version |-> NoVersion]
StatsJson(lastUpdate, emojiVersion) ==
    [kind |-> "json", last_update |-> lastUpdate, emoji_version |-> emojiVersion]

InitIdleRun ==
    /\ argvTest = FALSE
    /\ retryCount = 0
    /\ attempts = 0
    /\ now = 0
    /\ latest = NoVersion
    /\ version = NoVersion
    /\ statsFile = NoFile
    /\ fetched = <<>>
    /\ written = <<>>
    /\ files = [f \in Range(OutputFiles) |-> 0]
    /\ exitCode = Running
    /\ run = 1

(***************************************************************************)
(* SpecCounts: parseEmojiCounts applied to every bounded counts page.      *)
(***************************************************************************)
InitCounts ==
    /\ pc = "counts_page"
    /\ script = "auto"
    /\ countsHtml \in {<<h>> : h \in CountsHeaderRows}
    /\ dataHtml = <<>>
    /\ stats = InitialStats
    /\ emojiData = EmptyObj
    /\ groupData = <<>>
    /\ InitIdleRun

\* The page has one more row.
CountsPageRow ==
    /\ pc = "counts_page"
    /\ Len(countsHtml) < 1 + MaxCountRows
    /\ \E row \in CountsRowSet : countsHtml' = Append(countsHtml, row)
    /\ UNCHANGED <<pc, script, dataHtml, stats, emojiData, groupData, runVars>>

\* const stats = parseEmojiCounts(countsHtml)
CallParseEmojiCounts ==
    /\ pc = "counts_page"
    /\ stats' = parseEmojiCounts(countsHtml)
    /\ pc' = "counts_returned"
    /\ UNCHANGED <<script, countsHtml, dataHtml, emojiData, groupData, runVars>>

NextCounts == CountsPageRow \/ CallParseEmojiCounts

SpecCounts == InitCounts /\ [][NextCounts]_vars

(***************************************************************************)
(* SpecData: parseEmojiData, then generateGroupData, applied to every      *)
(* bounded emoji page, for both scripts.                                   *)
(***************************************************************************)
InitData ==
    /\ pc = "data_page"
    /\ script \in Scripts
    /\ countsHtml = <<>>
    /\ dataHtml = <<>>
    /\ stats = InitialStats
    /\ emojiData = EmptyObj
    /\ groupData = <<>>
    /\ InitIdleRun

\* The page has one more row.
DataPageRow ==
    /\ pc = "data_page"
    /\ Len(dataHtml) < MaxDataRows
    /\ \E row \in DataRowSet : dataHtml' = Append(dataHtml, row)
    /\ UNCHANGED <<pc, script, countsHtml, stats, emojiData, groupData, runVars>>

\* const emojiData = parseEmojiData(dataHtml), which returns or throws.
CallParseEmojiData ==
    /\ pc = "data_page"
    /\ LET r == parseEmojiData(script, dataHtml)
       IN  /\ emojiData' = r.data
           /\ pc' = IF r.ok THEN "data_returned" ELSE "data_thrown"
    /\ UNCHANGED <<script, countsHtml, dataHtml, stats, groupData, runVars>>

\* const groupData = generateGroupData(emojiData), which returns or throws.
CallGenerateGroupData ==
    /\ pc = "data_returned"
    /\ LET r == generateGroupData(emojiData)
       IN  /\ groupData' = r.list
           /\ pc' = IF r.ok THEN "group_returned" ELSE "group_thrown"
    /\ UNCHANGED <<script, countsHtml, dataHtml, stats, emojiData, runVars>>

NextData == DataPageRow \/ CallParseEmojiData \/ CallGenerateGroupData

SpecData == InitData /\ [][NextData]_vars

(***************************************************************************)
(* Spec: runs of main of either script.                                    *)
(***************************************************************************)
\* CONFIG
maxRetries == 3
\* CONFIG.versionCheckInterval, in days (24 * 60 * 60 * 1000 ms).
versionCheckInterval == 1

\* Bounds of the runs.
MaxRuns == 2

Versions == {"15.1", "16.0"}

\* The counts pages a fetch may return: the fixture, the fixture without
\* its Total row, and the fixture with a total below the variations.
CountsPages ==
    { MockCountsRows,
      SelectSeq(MockCountsRows, LAMBDA row : row[1] # <<"T", "o", "t", "a", "l">>),
      [i \in DOMAIN MockCountsRows |->
          IF MockCountsRows[i][1] = <<"T", "o", "t", "a", "l">> THEN CountsRowOf(<<"T", "o", "t", "a", "l">>, <<"2", "0">>)
          ELSE MockCountsRows[i]] }

\* The counts pages a fetch may return to generate-emoji-counts.js: its
\* fixture; a table whose first row names the columns and whose last row
\* gives their totals, with a row of variations; and such a table whose
\* last row is short.
BasicCountsPages ==
    { MockCountsRowsBasic,
      << <<<<>>, <<"S", "m", "i", "l", "e", "y", "s", " ", "&", " ", "E", "m", "o", "t", "i", "o", "n">>, <<"P", "e", "o", "p", "l", "e", " ", "&", " ", "B", "o", "d", "y">>, <<"C", "o", "m", "p", "o", "n", "e", "n", "t">>, <<"T", "o", "t", "a", "l">>>>,
         <<<<"f", "l", "a", "g", "s">>, <<"0">>, <<"0">>, <<"0">>, <<"0">>>>,
         << <<"U+1F3FF">>, <<"0">>, <<"2", "0">>, <<"0">>, <<"2", "5">>>>,
         <<<<"T", "o", "t", "a", "l">>, <<"1", "0", "0">>, <<"2", "0", "0">>, <<"1", "0">>, <<"3", "1", "0">>>> >>,
      << <<<<>>, <<"S", "m", "i", "l", "e", "y", "s", " ", "&", " ", "E", "m", "o", "t", "i", "o", "n">>, <<"P", "e", "o", "p", "l", "e", " ", "&", " ", "B", "o", "d", "y">>, <<"C", "o", "m", "p", "o", "n", "e", "n", "t">>, <<"T", "o", "t", "a", "l">>>>,
         <<<<"T", "o", "t", "a", "l">>, <<"3", "1", "0">>>> >> }

\* The emoji pages a fetch may return: the fixture, and the fixture
\* followed by a row whose code text is not hexadecimal (in part, or at
\* all) or by a row whose category is named like an inherited property.
DataPages ==
    { MockDataRows,
      Append(MockDataRows, DataRowOf(<<"1", "F", "6", "Z", "Z">>, <<"s", "t", "a", "r">>, <<"S", "y", "m", "b", "o", "l", "s">>)),
      Append(MockDataRows, DataRowOf(<<"1", "F", "4", "4", "B", " ", " ", "1", "F", "3", "F", "B">>, <<"w", "a", "v", "i", "n", "g", " ", "h", "a", "n", "d">>, <<"P", "e", "o", "p", "l", "e", " ", "&", " ", "B", "o", "d", "y">>)),
      Append(MockDataRows, DataRowOf(<<"2", "B", "5", "0">>, <<"s", "t", "a", "r">>, <<"c", "o", "n", "s", "t", "r", "u", "c", "t", "o", "r">>)) }

\* The assertions of testWithMockData on its two fixtures.
TestAssertionsHold ==
    LET mockStats == parseEmojiCounts(MockCountsRows)
        mockData == parseEmojiData("auto", MockDataRows)
        mockGroups == generateGroupData(mockData.data)
    IN  /\ mockData.ok
        /\ mockGroups.ok
        /\ mockStats.total_without_skin_tone_variations = Num(275)
        /\ mockStats.component = Num(10)
        /\ HasKey(mockStats.groups, <<"S", "m", "i", "l", "e", "y", "s", " ", "&", " ", "E", "m", "o", "t", "i", "o", "n">>)
        /\ mockStats.groups.val[<<"S", "m", "i", "l", "e", "y", "s", " ", "&", " ", "E", "m", "o", "t", "i", "o", "n">>] = Num(100)
        /\ HasKey(mockStats.groups, <<"P", "e", "o", "p", "l", "e", " ", "&", " ", "B", "o", "d", "y">>)
        /\ mockStats.groups.val[<<"P", "e", "o", "p", "l", "e", " ", "&", " ", "B", "o", "d", "y">>] = Num(200)
        /\ Len(mockData.data.keys) > 0
        /\ Len(mockGroups.list) > 0

\* The assertions of testWithMockData of generate-emoji-counts.js on its
\* two fixtures; a call that throws leaves them unevaluated.
TestAssertionsHoldBasic ==
    LET mockStats == parseEmojiCountsBasic(MockCountsRowsBasic)
        mockData == parseEmojiData("basic", MockDataRowsBasic)
        mockGroups == generateGroupData(mockData.data)
    IN  /\ mockStats.ok
        /\ mockData.ok
        /\ mockGroups.ok
        /\ mockStats.stats.total_without_skin_tone_variations = Num(300)
        /\ mockStats.stats.component = Num(10)
        /\ mockStats.stats.dual_skin_tone_support = Num(5)
        /\ Len(mockData.data.keys) > 0
        /\ Len(mockGroups.list) > 0

Init ==
    /\ pc = "start"
    /\ script \in Scripts
    /\ countsHtml = <<>>
    /\ dataHtml = <<>>
    /\ stats = InitialStats
    /\ emojiData = EmptyObj
    /\ groupData = <<>>
    /\ argvTest \in BOOLEAN
    /\ retryCount = 0
    /\ attempts = 0
    /\ now = 0
    /\ latest \in Versions
    /\ version = NoVersion
    /\ statsFile \in {NoFile, Corrupt}
    /\ fetched = <<>>
    /\ written = <<>>
    /\ files = [f \in Range(OutputFiles) |-> 0]
    /\ exitCode = Running
    /\ run = 1

parseVars == <<script, countsHtml, dataHtml, stats, emojiData, groupData, run>>
pageVars == <<script, countsHtml, dataHtml, emojiData, groupData, run>>

\* The process ends with this exit code.
Exit(code) ==
    /\ pc' = "exited"
    /\ exitCode' = code

\* if (process.argv.includes('--test')) { await testWithMockData(); return; }
\* stats is what parseEmojiCounts returned to the test, when it returned.
RunSelfTest ==
    /\ pc = "start"
    /\ argvTest
    /\ IF script = "auto"
       THEN /\ stats' = parseEmojiCounts(MockCountsRows)
            /\ Exit(IF TestAssertionsHold THEN 0 ELSE 1)
       ELSE /\ stats' = parseEmojiCountsBasic(MockCountsRowsBasic).stats
            /\ Exit(IF TestAssertionsHoldBasic THEN 0 ELSE 1)
    /\ UNCHANGED <<pageVars, argvTest, retryCount, attempts, now, latest, version, statsFile, fetched, written, files>>

\* main of generate-emoji-counts.js has no update check: the directories
\* are made and the download begins.
EnsureDirectories ==
    /\ pc = "start"
    /\ ~argvTest
    /\ script = "basic"
    /\ pc' = "fetch_data"
    /\ UNCHANGED <<parseVars, argvTest, retryCount, attempts, now, latest, version, statsFile, fetched, written, files, exitCode>>

\* The places of main where a call of fetchWithRetry runs.
FetchSites == {"fetch_check", "fetch_data", "fetch_counts", "fetch_version"}

\* fetchWithRetry is called with retryCount = 0 and calls fetch().
FirstAttempt ==
    /\ pc \in FetchSites
    /\ attempts = 0
    /\ retryCount = 0
    /\ attempts' = 1
    /\ UNCHANGED <<pc, parseVars, argvTest, retryCount, now, latest, version, statsFile, fetched, written, files, exitCode>>

\* fetchWithRetry: the attempt fails (time-out, network error or HTTP status
\* not ok) with more retries allowed; the same call retries with the
\* next retryCount, which waits retryDelay and calls fetch() again.
AttemptFailsRetryUnbounded ==
    /\ pc \in FetchSites
    /\ attempts >= 1
    /\ retryCount < maxRetries + 1
    /\ retryCount' = retryCount + 1
    /\ attempts' = attempts + 1
    /\ UNCHANGED <<pc, parseVars, argvTest, now, latest, version, statsFile, fetched, written, files, exitCode>>

AttemptFailsRetry ==
    /\ pc \in FetchSites
    /\ attempts >= 1
    /\ retryCount < maxRetries
    /\ retryCount' = retryCount + 1
    /\ attempts' = attempts + 1
    /\ UNCHANGED <<pc, parseVars, argvTest, now, latest, version, statsFile, fetched, written, files, exitCode>>

\* The error of the last attempt is dropped and main goes on.
AttemptFailsThrowIgnored ==
    /\ pc \in FetchSites
    /\ attempts >= 1
    /\ retryCount >= maxRetries
    /\ retryCount' = 0
    /\ attempts' = 0
    /\ pc' = (CASE pc = "fetch_check" -> "fetch_data"
                [] pc = "fetch_data" -> "fetch_counts"
                [] pc = "fetch_counts" -> "parse"
                [] OTHER -> "exited")
    /\ exitCode' = (IF pc = "fetch_version" THEN 1 ELSE exitCode)
    /\ UNCHANGED <<parseVars, argvTest, now, latest, version, statsFile, fetched, written, files>>

\* fetchWithRetry: the attempt fails with no retry left and the error is
\* thrown.  Inside checkForUpdates it is caught and an update is needed; in
\* main it ends the run.
AttemptFailsThrow ==
    /\ pc \in FetchSites
    /\ attempts >= 1
    /\ retryCount >= maxRetries
    /\ retryCount' = 0
    /\ attempts' = 0
    /\ IF pc = "fetch_check"
       THEN pc' = "fetch_data" /\ UNCHANGED exitCode
       ELSE Exit(1)
    /\ UNCHANGED <<parseVars, argvTest, now, latest, version, statsFile, fetched, written, files>>

\* checkForUpdates up to its fetch: no stats file, or one that cannot be
\* parsed, asks for an update; a recent last_update ends the run.
CheckForUpdates ==
    /\ pc = "start"
    /\ ~argvTest
    /\ script = "auto"
    /\ IF statsFile.kind # "json"
       THEN pc' = "fetch_data" /\ UNCHANGED exitCode
       ELSE IF now - statsFile.last_update > versionCheckInterval
            THEN pc' = "fetch_check" /\ UNCHANGED exitCode
            ELSE Exit(0)
    /\ UNCHANGED <<parseVars, argvTest, retryCount, attempts, now, latest, version, statsFile, fetched, written, files>>

\* getLatestEmojiVersion inside checkForUpdates: the page is fetched; when
\* its heading shows no version the error is caught and an update is needed.
CheckVersionFetched ==
    /\ pc = "fetch_check"
    /\ attempts >= 1
    /\ retryCount' = 0
    /\ attempts' = 0
    /\ fetched' = Append(fetched, "emoji-versions.html")
    /\ \E matched \in BOOLEAN :
          IF matched /\ latest = (IF statsFile.emoji_version = NoVersion THEN "0.0"
                                   ELSE statsFile.emoji_version)
          THEN Exit(0)
          ELSE pc' = "fetch_data" /\ UNCHANGED exitCode
    /\ UNCHANGED <<parseVars, argvTest, now, latest, version, statsFile, written, files>>

\* downloadEmojiData: the page is fetched and saved as emoji-data.html.
DownloadEmojiData ==
    /\ pc = "fetch_data"
    /\ attempts >= 1
    /\ retryCount' = 0
    /\ attempts' = 0
    /\ fetched' = Append(fetched, "full-emoji-list.html")
    /\ \E page \in DataPages : dataHtml' = page
    /\ pc' = "fetch_counts"
    /\ UNCHANGED <<script, countsHtml, stats, emojiData, groupData, run,
                   argvTest, now, latest, version, statsFile, written, files, exitCode>>

\* downloadEmojiCounts: the page is fetched and saved as emoji-counts.html.
DownloadEmojiCounts ==
    /\ pc = "fetch_counts"
    /\ attempts >= 1
    /\ retryCount' = 0
    /\ attempts' = 0
    /\ fetched' = Append(fetched, "emoji-counts.html")
    /\ \E page \in (IF script = "auto" THEN CountsPages ELSE BasicCountsPages) :
          countsHtml' = page
    /\ pc' = "parse"
    /\ UNCHANGED <<script, dataHtml, stats, emojiData, groupData, run,
                   argvTest, now, latest, version, statsFile, written, files, exitCode>>

\* The two pages are read back and parsed, and the groups are built; an
\* error thrown by any of the three calls ends the run.  The auto-updating
\* script then asks for the version, the other one writes its files.
ParseAndBuild ==
    /\ pc = "parse"
    /\ LET counted == IF script = "auto"
                      THEN [ok |-> TRUE, stats |-> parseEmojiCounts(countsHtml)]
                      ELSE parseEmojiCountsBasic(countsHtml)
           parsed == parseEmojiData(script, dataHtml)
           grouped == generateGroupData(parsed.data)
       IN  /\ stats' = counted.stats
           /\ emojiData' = IF counted.ok THEN parsed.data ELSE emojiData
           /\ groupData' = IF counted.ok THEN grouped.list ELSE groupData
           /\ IF counted.ok /\ parsed.ok /\ grouped.ok
              THEN pc' = (IF script = "auto" THEN "fetch_version" ELSE "write")
                   /\ UNCHANGED exitCode
              ELSE Exit(1)
    /\ UNCHANGED <<script, countsHtml, dataHtml, run,
                   argvTest, retryCount, attempts, now, latest, version, statsFile, fetched, written, files>>

\* stats.emoji_version = await getLatestEmojiVersion(): the page is fetched;
\* when its heading shows no version the error ends the run.
VersionFetched ==
    /\ pc = "fetch_version"
    /\ attempts >= 1
    /\ retryCount' = 0
    /\ attempts' = 0
    /\ fetched' = Append(fetched, "emoji-versions.html")
    /\ \E matched \in BOOLEAN :
          IF matched
          THEN version' = latest /\ pc' = "write" /\ UNCHANGED exitCode
          ELSE UNCHANGED version /\ Exit(1)
    /\ UNCHANGED <<parseVars, argvTest, now, latest, statsFile, written, files>>

\* The next fs.writeFileSync of main succeeds; stats.json is the first file
\* and carries last_update = Date.now() and the version just fetched.
WriteNextFile ==
    /\ pc = "write"
    /\ LET file == OutputFiles[Len(written) + 1]
       IN  /\ written' = Append(written, file)
           /\ files' = [files EXCEPT ![file] = run]
           /\ statsFile' = IF file # "test/stats.json" THEN statsFile
                           ELSE IF script = "auto" THEN StatsJson(now, version)
                           ELSE StatsJson(0, NoVersion)
    /\ IF Len(written') = Len(OutputFiles) THEN Exit(0)
       ELSE UNCHANGED <<pc, exitCode>>
    /\ UNCHANGED <<parseVars, argvTest, retryCount, attempts, now, latest, version, fetched>>

\* The next fs.writeFileSync of main throws (the disk is full, the file is
\* not writable): the run ends, the files written before it stay.
WriteFails ==
    /\ pc = "write"
    /\ Exit(1)
    /\ UNCHANGED <<parseVars, argvTest, retryCount, attempts, now, latest, version, statsFile, fetched, written, files>>

\* The script is started again, at the same time or later; a new emoji
\* version may have come out.
NextRun ==
    /\ pc = "exited"
    /\ run < MaxRuns
    /\ run' = run + 1
    /\ now' \in {now, now + versionCheckInterval, now + versionCheckInterval + 1}
    /\ latest' \in Versions
    /\ argvTest' \in BOOLEAN
    /\ pc' = "start"
    /\ exitCode' = Running
    /\ fetched' = <<>>
    /\ written' = <<>>
    /\ version' = NoVersion
    /\ retryCount' = 0
    /\ attempts' = 0
    /\ stats' = InitialStats
    /\ emojiData' = EmptyObj
    /\ groupData' = <<>>
    /\ UNCHANGED <<script, countsHtml, dataHtml, statsFile, files>>

Next ==
    \/ RunSelfTest
    \/ EnsureDirectories
    \/ CheckForUpdates
    \/ CheckVersionFetched
    \/ FirstAttempt
    \/ AttemptFailsRetry
    \/ AttemptFailsThrow
    \/ DownloadEmojiData
    \/ DownloadEmojiCounts
    \/ ParseAndBuild
    \/ VersionFetched
    \/ WriteNextFile
    \/ WriteFails
    \/ NextRun

Spec == Init /\ [][Next]_vars

\* The steps of a running call of fetchWithRetry.  Every attempt ends, by
\* its response or by the abort of its timer, and every delay ends.
FetchStep ==
    \/ FirstAttempt
    \/ AttemptFailsRetry
    \/ AttemptFailsThrow
    \/ CheckVersionFetched
    \/ DownloadEmojiData
    \/ DownloadEmojiCounts
    \/ VersionFetched

FairSpec == Spec /\ WF_vars(FetchStep)
(***************************************************************************)
(* Properties.                                                             *)
(***************************************************************************)
\* What a row of the counts pages says, read by hand: its label, and its
\* number when it has one.
CountsRowReading(row) ==
    CASE row = CountsRowOf(<<"G", "r", "o", "u", "p">>, <<"C", "o", "u", "n", "t">>) -> [label |-> "Group", numeric |-> FALSE, n |-> 0]
      [] row = CountsRowOf(<<"S", "m", "i", "l", "e", "y", "s", " ", "&", " ", "E", "m", "o", "t", "i", "o", "n">>, <<"1", "0", "0">>) ->
            [label |-> "Smileys & Emotion", numeric |-> TRUE, n |-> 100]
      [] row = CountsRowOf(<<"P", "e", "o", "p", "l", "e", " ", "&", " ", "B", "o", "d", "y">>, <<"2", "0", "0">>) ->
            [label |-> "People & Body", numeric |-> TRUE, n |-> 200]
      [] row = CountsRowOf(<<"C", "o", "m", "p", "o", "n", "e", "n", "t">>, <<"1", "0">>) ->
            [label |-> "Component", numeric |-> TRUE, n |-> 10]
      [] row = CountsRowOf(<<"T", "o", "t", "a", "l">>, <<"3", "1", "0">>) -> [label |-> "Total", numeric |-> TRUE, n |-> 310]
      [] row = CountsRowOf(<<"W", "i", "t", "h", " ", "s", "k", "i", "n", " ", "t", "o", "n", "e", " ", "v", "a", "r", "i", "a", "t", "i", "o", "n", "s">>, <<"2", "5">>) ->
            [label |-> "With skin tone variations", numeric |-> TRUE, n |-> 25]
      [] row = CountsRowOf(<<"T", "o", "t", "a", "l">>, <<"2", "0">>) -> [label |-> "Total", numeric |-> TRUE, n |-> 20]
      [] row = CountsRowOf(<<" ", "C", "o", "m", "p", "o", "n", "e", "n", "t", " ">>, <<" ", "7">>) ->
            [label |-> "Component", numeric |-> TRUE, n |-> 7]
      [] row = CountsRowOf(<<"G", "r", "o", "u", "p">>, <<"5">>) -> [label |-> "Group", numeric |-> TRUE, n |-> 5]
      [] row = <<<<"T", "o", "t", "a", "l">>>> -> [label |-> "Total", numeric |-> FALSE, n |-> 0]
      [] row = CountsRowOf(<<"F", "l", "a", "g", "s">>, <<"n", "/", "a">>) -> [label |-> "Flags", numeric |-> FALSE, n |-> 0]

\* The rows of the page after its header that bear the label.
RowsLabelled(page, label) ==
    {i \in 2..Len(page) : CountsRowReading(page[i]).label = label}

\* The numbers the page gives for the label after its header.
NumbersOf(page, label) ==
    {CountsRowReading(page[i]).n : i \in RowsLabelled(page, label)}

\* The page gives the label, after its header, with one number and no other.
Carries(page, label) ==
    /\ \A i \in RowsLabelled(page, label) : CountsRowReading(page[i]).numeric
    /\ Cardinality(NumbersOf(page, label)) = 1

\* That number.
Carried(page, label) == CHOOSE n \in NumbersOf(page, label) : TRUE

\* C1: when the rows after the header give Total = T, With skin tone
\* variations = V and Component = C, in any order and with any other rows
\* between them, parseEmojiCounts returns
\* total_without_skin_tone_variations = T - V - C and component = C.
C1_TotalIsReconciled ==
    ( /\ pc = "counts_returned"
      /\ Carries(countsHtml, "Total")
      /\ Carries(countsHtml, "With skin tone variations")
      /\ Carries(countsHtml, "Component") )
    => /\ stats.total_without_skin_tone_variations
             = Num(Carried(countsHtml, "Total")
                   - Carried(countsHtml, "With skin tone variations")
                   - Carried(countsHtml, "Component"))
       /\ stats.component = Num(Carried(countsHtml, "Component"))

\* C1: the counts of the fixture, Component first and a category row between.
C1_Witness ==
    /\ pc = "counts_returned"
    /\ countsHtml = << CountsRowOf(<<"G", "r", "o", "u", "p">>, <<"C", "o", "u", "n", "t">>),
                       CountsRowOf(<<"C", "o", "m", "p", "o", "n", "e", "n", "t">>, <<"1", "0">>),
                       CountsRowOf(<<"S", "m", "i", "l", "e", "y", "s", " ", "&", " ", "E", "m", "o", "t", "i", "o", "n">>, <<"1", "0", "0">>),
                       CountsRowOf(<<"T", "o", "t", "a", "l">>, <<"3", "1", "0">>),
                       CountsRowOf(<<"W", "i", "t", "h", " ", "s", "k", "i", "n", " ", "t", "o", "n", "e", " ", "v", "a", "r", "i", "a", "t", "i", "o", "n", "s">>, <<"2", "5">>) >>
    /\ stats.total_without_skin_tone_variations = Num(275)

\* C2: parseEmojiCounts never returns statistics whose
\* total_without_skin_tone_variations is negative or not a finite number.
C2_NeverNegativeOrNaN ==
    pc = "counts_returned" =>
        /\ stats.total_without_skin_tone_variations.t = "num"
        /\ stats.total_without_skin_tone_variations.v >= 0

\* C3: a normal run of part_000 that fetched a counts page without a Total
\* row never writes test/stats.json and does not exit with code 0.
C3_NoTotalAbortsBeforeStats ==
    ( /\ ~argvTest
      /\ script = "auto"
      /\ "emoji-counts.html" \in Range(fetched)
      /\ RowsLabelled(countsHtml, "Total") = {} )
    => /\ "test/stats.json" \notin Range(written)
       /\ (pc = "exited" => exitCode # 0)

IsVariant(data) == data.is_variant = "true"

SingleToneVariantsOf(d, k) ==
    {v \in DOMAIN d.val :
        /\ IsVariant(d.val[v])
        /\ d.val[v].base_emoji = k
        /\ d.val[v].dual_skin_tone_support # "true"}

DualToneVariantsOf(d, k) ==
    {v \in DOMAIN d.val :
        /\ IsVariant(d.val[v])
        /\ d.val[v].base_emoji = k
        /\ d.val[v].dual_skin_tone_support = "true"}

Modifiers == Range(SKIN_TONE_MODIFIERS)

\* C4: in the mapping parseEmojiData (part_000) returns, every non-variant
\* record with skin_tone_support = true has exactly 5 single-tone variant
\* records, one per modifier, keyed base + modifier, each a variant whose
\* base_emoji is the base key and whose code points are those of the base
\* followed by the modifier.
C4_FiveSingleToneVariants ==
    (pc = "data_returned" /\ script = "auto") =>
        \A k \in DOMAIN emojiData.val :
            (~IsVariant(emojiData.val[k]) /\ emojiData.val[k].skin_tone_support = "true")
            => /\ SingleToneVariantsOf(emojiData, k) = {k \o m : m \in Modifiers}
               /\ \A m \in Modifiers :
                     emojiData.val[k \o m].code_points = emojiData.val[k].code_points \o m

\* C5: in the mapping parseEmojiData returns, every non-variant record with
\* dual_skin_tone_support = true has exactly 25 dual-tone variant records,
\* one per ordered pair of modifiers, keyed base + modifier1 + modifier2,
\* each with base_emoji the base key.
C5_TwentyFiveDualToneVariants ==
    pc = "data_returned" =>
        \A k \in DOMAIN emojiData.val :
            (~IsVariant(emojiData.val[k]) /\ emojiData.val[k].dual_skin_tone_support = "true")
            => /\ DualToneVariantsOf(emojiData, k)
                    = {k \o m1 \o m2 : m1 \in Modifiers, m2 \in Modifiers}
               /\ Cardinality(DualToneVariantsOf(emojiData, k)) = 25

\* C6: in the mapping parseEmojiData returns, the base_emoji of every
\* variant record is a key of the mapping whose record is not a variant.
C6_VariantBaseResolves ==
    pc = "data_returned" =>
        \A v \in DOMAIN emojiData.val :
            IsVariant(emojiData.val[v])
            => /\ emojiData.val[v].base_emoji \in DOMAIN emojiData.val
               /\ ~IsVariant(emojiData.val[emojiData.val[v].base_emoji])

\* The places <<group, position>> of the list at which the key is listed.
PlacesOf(list, k) ==
    UNION {{<<i, j>> : j \in {n \in DOMAIN list[i].emojis : list[i].emojis[n].emoji = k}} :
              i \in DOMAIN list}

FirstOccurrences(seq) ==
    LET firsts == SelectSeq([i \in DOMAIN seq |-> i],
                            LAMBDA i : \A j \in 1..(i - 1) : seq[j] # seq[i])
    IN  [n \in DOMAIN firsts |-> seq[firsts[n]]]

\* The categories of the rows of the page that have their three cells.
SourceCategories(page) ==
    LET full == SelectSeq(page, LAMBDA row : row.cells = RowCells)
    IN  [i \in DOMAIN full |-> full[i].group]

GroupNames(list) == [i \in DOMAIN list |-> list[i].name]

\* C8: the groups of the list come in the order in which their categories
\* first occur in the source rows.
C8_GroupsInSourceOrder ==
    pc = "group_returned" =>
        GroupNames(groupData)
            = SelectSeq(FirstOccurrences(SourceCategories(dataHtml)),
                        LAMBDA g : g \in Range(GroupNames(groupData)))

\* C9: for the single row (1F600, grinning face, Smileys & Emotion) the
\* mapping holds exactly one record, with both flags false, and no variant.
C9_GrinningFaceHasNoVariants ==
    (pc = "data_returned" /\ dataHtml = <<MockDataRows[1]>>) =>
        /\ DOMAIN emojiData.val = {<<128512>>}
        /\ emojiData.val[<<128512>>].skin_tone_support = "false"
        /\ emojiData.val[<<128512>>].dual_skin_tone_support = "false"
        /\ ~IsVariant(emojiData.val[<<128512>>])

HexDigits ==
    {"0", "1", "2", "3", "4", "5", "6", "7", "8", "9",
     "a", "b", "c", "d", "e", "f", "A", "B", "C", "D", "E", "F"}

IsHexToken(token) == token # <<>> /\ \A i \in DOMAIN token : token[i] \in HexDigits

\* The row has its three cells and a token in its code text that is not a
\* hexadecimal number.
HasNonHexToken(row) ==
    /\ row.cells = RowCells
    /\ \E token \in Range(Split(Trim(row.code))) : ~IsHexToken(token)

\* C10: a run that fetched an emoji page with a row whose code text holds a
\* token that is not hexadecimal fails in parseEmojiData: it goes no
\* further than the parse, writes no output file and exits with code 1.
C10_NonHexTokenIsFatal ==
    ( /\ ~argvTest
      /\ "full-emoji-list.html" \in Range(fetched)
      /\ \E i \in DOMAIN dataHtml : HasNonHexToken(dataHtml[i]) )
    => /\ pc \notin {"fetch_version", "write"}
       /\ written = <<>>
       /\ (pc = "exited" => exitCode = 1)

\* The page a call of fetchWithRetry at this place of main asks for.
UrlOf(site) ==
    CASE site = "fetch_data" -> "full-emoji-list.html"
      [] site = "fetch_counts" -> "emoji-counts.html"
      [] OTHER -> "emoji-versions.html"

\* A step of a running call of fetchWithRetry after which it still runs.
CallGoesOn == attempts >= 1 /\ attempts' >= 1

\* A step by which a running call of fetchWithRetry returns the response.
CallReturns == pc \in FetchSites /\ fetched' = Append(fetched, UrlOf(pc))

\* A step by which a running call of fetchWithRetry raises its error.
CallRaises == attempts >= 1 /\ attempts' = 0 /\ fetched' = fetched

\* C11: one call of fetchWithRetry makes at most maxRetries + 1 = 4
\* attempts; a failed attempt with retryCount < maxRetries is followed by
\* exactly one further attempt for the same page; a successful attempt ends
\* the call with the response; the error is raised only after the 4th
\* failed attempt, to the caller and with no further attempt; and every call
\* of fetchWithRetry ends.
C11_AtMostFourAttempts ==
    /\ [](attempts <= maxRetries + 1 /\ (pc \in FetchSites => attempts = 0 \/ attempts = retryCount + 1))
    /\ [][ /\ (CallGoesOn /\ attempts' # attempts)
               => /\ retryCount < maxRetries
                  /\ attempts' = attempts + 1
                  /\ retryCount' = retryCount + 1
                  /\ pc' = pc
                  /\ fetched' = fetched
           /\ CallReturns
               => /\ attempts \in 1..(maxRetries + 1)
                  /\ attempts' = 0
           /\ CallRaises
               => /\ attempts = maxRetries + 1
                  /\ IF pc = "fetch_check" THEN pc' = "fetch_data" /\ exitCode' = Running
                     ELSE pc' = "exited" /\ exitCode' = 1 ]_vars
    /\ [](attempts >= 1 => <>(attempts = 0))

\* The 4th attempt of a call for the counts page is under way.
C11_Witness ==
    /\ pc = "fetch_counts"
    /\ attempts = maxRetries + 1
    /\ retryCount = maxRetries

\* C12: a self-test run of generate-emoji-counts.js ends with exit code 0,
\* with statistics from parseEmojiCounts for the counts fixture in which
\* dual_skin_tone_support is 5, component is 10 and
\* total_without_skin_tone_variations is 300.
C12_BasicSelfTestPasses ==
    (script = "basic" /\ argvTest /\ pc = "exited")
    => /\ exitCode = 0
       /\ stats.dual_skin_tone_support = Num(5)
       /\ stats.component = Num(10)
       /\ stats.total_without_skin_tone_variations = Num(300)

\* The run has fetched the emoji page and, after it, the counts page, each
\* once.
FetchedBoth ==
    \E i, j \in DOMAIN fetched :
        /\ i < j
        /\ fetched[i] = "full-emoji-list.html"
        /\ fetched[j] = "emoji-counts.html"
        /\ \A k \in DOMAIN fetched \ {i, j} : fetched[k] = "emoji-versions.html"

\* C13: in a normal run the fetch of the counts page begins only after the
\* fetch of the emoji page has succeeded; the pages are parsed and the
\* groups built only after both fetches have succeeded, the emoji page
\* first; the output files are written only after that, and no file but the
\* five; and when the fetch of either page has failed maxRetries + 1 times
\* the run ends with a non-zero exit code, no output file written.
C13_StagesInOrder ==
    /\ [](~argvTest =>
            /\ (pc = "fetch_data" => fetched \in {<<>>, <<"emoji-versions.html">>})
            /\ (pc = "fetch_counts" =>
                    /\ "full-emoji-list.html" \in Range(fetched)
                    /\ "emoji-counts.html" \notin Range(fetched))
            /\ (pc \in {"parse", "fetch_version", "write"} => FetchedBoth)
            /\ (stats # InitialStats \/ emojiData # EmptyObj \/ groupData # <<>>
                    => FetchedBoth /\ pc \in {"fetch_version", "write", "exited"})
            /\ (written # <<>> =>
                    /\ FetchedBoth
                    /\ pc \in {"write", "exited"}
                    /\ written = SubSeq(OutputFiles, 1, Len(written))))
    /\ [][ (pc \in {"fetch_data", "fetch_counts"} /\ CallRaises)
              => /\ pc' = "exited"
                 /\ exitCode' \notin {0, Running}
                 /\ written' = <<>> ]_vars

\* A normal run has written its five files, both pages fetched, and ended.
C13_Witness ==
    /\ ~argvTest
    /\ pc = "exited"
    /\ exitCode = 0
    /\ FetchedBoth
    /\ written = OutputFiles

\* The run of the auto-updating script has ended with "no update needed":
\* exit code 0 with no data page fetched and no file written.
NoUpdateNeeded ==
    /\ script = "auto"
    /\ ~argvTest
    /\ pc = "exited"
    /\ exitCode = 0
    /\ "full-emoji-list.html" \notin Range(fetched)
    /\ "emoji-counts.html" \notin Range(fetched)
    /\ written = <<>>

\* C14: whenever a run of the auto-updating script ends with "no update
\* needed", the run that wrote the test/stats.json it read also wrote the
\* four data files.
C14_StatsNeverOutrunsData ==
    NoUpdateNeeded =>
        \A f \in Range(OutputFiles) : files[f] = files["test/stats.json"]
====
